---- MODULE Spec2Model ----
(***************************************************************************)
(* Calendar Satisfaction Problem solver: DateConstraint                    *)
(* (date_constraints.py) and the filtering and backtracking functions of   *)
(* csp_solver.py.                                                          *)
(*                                                                         *)
(* A datetime is modelled by its day number (1, 2, ...): the code only     *)
(* compares datetimes with ==, <, >, <=, >=, which day numbers preserve.   *)
(* Python sets are iterated in an unspecified order (the hash of a         *)
(* datetime and of a str is salted per process), so every loop over a set  *)
(* and every set.pop() takes any element.                                  *)
(*                                                                         *)
(* Spec is a call of solve or of one of its parts; ArcSpec is              *)
(* arc_consistency alone, with fairness; ArcTwiceSpec is arc_consistency   *)
(* called twice in a row; IndexSpec is solve called with a constraint on a *)
(* meeting the problem does not have; ConstraintSpec is one call of the    *)
(* constructor or of a method of DateConstraint; LocalSpec is a call of    *)
(* local_solve (csp_local_solver.py).                                      *)
(***************************************************************************)
EXTENDS Integers, Sequences, FiniteSets, TLC

\* Bounds of the instances explored.
MaxMeetings == 2
MaxDays == 2
MaxConstraints == 1

\* Python's None in an assignment slot or as a date argument; every datetime
\* is a day number >= 1 and is truthy, None is falsy.
None == 0
\* Python's None as the HEAD of the arc of a unary constraint.
NoHead == -1

_VALID_OPS == {"==", "!=", ">", "<", ">=", "<="}

\* DateConstraint.__init__ for well-formed operands: ARITY 1 when r_val is a
\* datetime, 2 when it is a meeting index.
DateConstraint(l_val, op, r_val, arity) ==
    [L_VAL |-> l_val, OP |-> op, R_VAL |-> r_val, ARITY |-> arity]

arity(c) == c.ARITY

\* Mutant: ">=" compared as ">".
dates_satisfy_strict(c, left_date, right_date) ==
    CASE c.OP = "==" -> left_date = right_date
      [] c.OP = "!=" -> ~(left_date = right_date)
      [] c.OP = ">"  -> left_date > right_date
      [] c.OP = "<"  -> left_date < right_date
      [] c.OP = ">=" -> left_date > right_date
      [] c.OP = "<=" -> left_date <= right_date
      [] OTHER -> FALSE

\* Mutant: "!=" compared as "==".
dates_satisfy_ne_as_eq(c, left_date, right_date) ==
    CASE c.OP = "==" -> left_date = right_date
      [] c.OP = "!=" -> left_date = right_date
      [] c.OP = ">"  -> left_date > right_date
      [] c.OP = "<"  -> left_date < right_date
      [] c.OP = ">=" -> left_date >= right_date
      [] c.OP = "<=" -> left_date <= right_date
      [] OTHER -> FALSE

dates_satisfy(c, left_date, right_date) ==
    CASE c.OP = "==" -> left_date = right_date
      [] c.OP = "!=" -> ~(left_date = right_date)
      [] c.OP = ">"  -> left_date > right_date
      [] c.OP = "<"  -> left_date < right_date
      [] c.OP = ">=" -> left_date >= right_date
      [] c.OP = "<=" -> left_date <= right_date
      [] OTHER -> FALSE

\* Mutant: the operator is kept when the operands are swapped.
get_symmetrical_op_same(c) == c.OP

\* Mutant: the operator is negated instead of mirrored.
get_symmetrical_op_negated(c) ==
    CASE c.OP = ">"  -> "<="
      [] c.OP = "<"  -> ">="
      [] c.OP = ">=" -> "<"
      [] c.OP = "<=" -> ">"
      [] OTHER -> c.OP

get_symmetrical_op(c) ==
    CASE c.OP = ">"  -> "<"
      [] c.OP = "<"  -> ">"
      [] c.OP = ">=" -> "<="
      [] c.OP = "<=" -> ">="
      [] OTHER -> c.OP

\* get_reverse raises ValueError when R_VAL is not an int: on a unary constraint.
get_reverse_raises(c) == c.ARITY # 2

\* get_reverse of a binary constraint.
get_reverse(c) == DateConstraint(c.R_VAL, get_symmetrical_op(c), c.L_VAL, 2)

\* The number of slots of an assignment or of a list of domains (indexed 0..n-1).
len(a) == Cardinality(DOMAIN a)

\* Mutant: a constraint on an unassigned meeting counts as violated.
is_satisfied_by_assignment_strict(c, assignment) ==
    LET left_date == IF c.L_VAL < len(assignment) THEN assignment[c.L_VAL] ELSE None
        right_date == IF c.ARITY = 1 THEN c.R_VAL
                      ELSE IF c.R_VAL < len(assignment) THEN assignment[c.R_VAL]
                      ELSE None
    IN  IF left_date = None \/ right_date = None THEN FALSE
        ELSE dates_satisfy(c, left_date, right_date)

\* Mutant: only the left date is tested for None.
is_satisfied_by_assignment_left_only(c, assignment) ==
    LET left_date == IF c.L_VAL < len(assignment) THEN assignment[c.L_VAL] ELSE None
        right_date == IF c.ARITY = 1 THEN c.R_VAL
                      ELSE IF c.R_VAL < len(assignment) THEN assignment[c.R_VAL]
                      ELSE None
    IN  IF left_date = None THEN TRUE
        ELSE dates_satisfy(c, left_date, right_date)

is_satisfied_by_assignment(c, assignment) ==
    LET left_date == IF c.L_VAL < len(assignment) THEN assignment[c.L_VAL] ELSE None
        right_date == IF c.ARITY = 1 THEN c.R_VAL
                      ELSE IF c.R_VAL < len(assignment) THEN assignment[c.R_VAL]
                      ELSE None
    IN  IF left_date = None \/ right_date = None THEN TRUE
        ELSE dates_satisfy(c, left_date, right_date)

\* Mutant: a right_date left out is never an error.
is_satisfied_by_values_never_raises(c, right_date) == FALSE

\* is_satisfied_by_values raises ValueError when right_date is left out (None)
\* for a binary constraint.
is_satisfied_by_values_raises(c, right_date) == right_date = None /\ c.ARITY # 1

is_satisfied_by_values(c, left_date, right_date) ==
    IF right_date = None
    THEN c.ARITY = 1 /\ dates_satisfy(c, left_date, c.R_VAL)
    ELSE dates_satisfy(c, left_date, right_date)

\* CSPTests.generate_dates: n_days consecutive days from day 1.
generate_dates(n_days) == 1..n_days

\* The orders in which a Python set can be iterated.
RECURSIVE list_orders(_)
list_orders(S) ==
    IF S = {} THEN {<<>>}
    ELSE UNION {{<<x>> \o o : o \in list_orders(S \ {x})} : x \in S}

\* The sets of at most k elements of U.
RECURSIVE SubsetsUpTo(_, _)
SubsetsUpTo(U, k) ==
    IF k = 0 THEN {{}}
    ELSE LET P == SubsetsUpTo(U, k - 1)
         IN  P \cup {s \cup {x} : s \in P, x \in U}

\* The well-formed constraints over meetings 0..n-1 (binary, a meeting may be
\* compared with itself) and over the days 1..MaxDays (unary).
ConstraintUniverse(n) ==
    {DateConstraint(l, op, r, 2) : l \in 0..(n - 1), op \in _VALID_OPS, r \in 0..(n - 1)}
    \cup
    {DateConstraint(l, op, d, 1) : l \in 0..(n - 1), op \in _VALID_OPS, d \in 1..MaxDays}

\* The function called: solve, or one of its parts called directly on freshly
\* copied domains as csp_tests.py does.
Calls == {"solve", "node_consistency", "arc_consistency", "recursive_backtracker"}

VARIABLES
    args,           \* a call on a DateConstraint: its receiver and arguments
    container,      \* container[i]: the identity of the set object domains[i] refers to
    n_meetings,     \* solve's n_meetings
    date_range,     \* solve's date_range: the contents of the caller's set object
    constraints,    \* solve's constraints
    call,           \* the function called, one of Calls or of ConstraintCalls
    pc,             \* where the call stands
    domains,        \* domains[i]: the set of dates still possible for meeting i
    nc_todo,        \* node_consistency: the constraints its loop has not visited
    nc_run,         \* a filtering function called directly: 1 in its first run,
                    \* 2 in the repeated run
    arc_set,        \* arc_consistency: the worklist
    assignment,     \* assignment[i]: the date of meeting i, or None
    stack,          \* the active calls of recursive_backtracker inside their loop,
                    \* each with the assignment it was entered with
    depth,          \* the depth argument of the call being entered
    outcome,        \* "running", "solution", "none", "error" (the ValueError of
                    \* select_unassigned_variable) or "IndexError";
                    \* of a call on a DateConstraint: "returned" or the exception raised
    result          \* the returned assignment when outcome = "solution"; the
                    \* value a call on a DateConstraint returned

vars == <<args, container, n_meetings, date_range, constraints, call, pc, domains,
          nc_todo, nc_run, arc_set, assignment, stack, depth, outcome, result>>

\* No call on a DateConstraint is being made.
NoArgs == <<>>

\* Nothing was returned.
NoValue == <<>>

----------------------------------------------------------------------------
\* The set objects behind the domains

\* The identity of the caller's date_range object.
CallerSet == 0

\* Mutant: every domain is the caller's set object itself, not a copy of it.
set_copies_shared(n) == [i \in 0..(n - 1) |-> CallerSet]

\* [set(date_range) for _ in range(n_meetings)]: one new set object per meeting.
set_copies(n) == [i \in 0..(n - 1) |-> i + 1]

\* Mutant: the value leaves every domain.
set_remove_everywhere(doms, i, value) == [j \in DOMAIN doms |-> doms[j] \ {value}]

\* domains[i].remove(value): the value leaves the set object domains[i] refers
\* to, hence every domain that refers to the same object.
set_remove(doms, i, value) ==
    [j \in DOMAIN doms |-> IF container[j] = container[i] THEN doms[j] \ {value}
                           ELSE doms[j]]

\* The contents of the caller's set object when the domains are doms.
caller_set(doms) ==
    IF \E i \in DOMAIN doms : container[i] = CallerSet
    THEN doms[CHOOSE i \in DOMAIN doms : container[i] = CallerSet]
    ELSE date_range

\* domains[meeting_index] = new_domain: the slot refers to a new set object.
new_set(cont, meeting_index) ==
    [cont EXCEPT ![meeting_index] = Cardinality(DOMAIN cont) + 1 + meeting_index]

----------------------------------------------------------------------------
\* node_consistency

\* Mutant: the loop body stops at the first value it removes.
node_consistency_body_once(doms, constraint) ==
    IF constraint.ARITY = 1
    THEN LET meeting_index == constraint.L_VAL
             domain == doms[meeting_index]
             bad == {value \in domain : ~is_satisfied_by_values(constraint, value, None)}
         IN  IF bad = {} THEN doms
             ELSE [doms EXCEPT ![meeting_index] =
                        domain \ {CHOOSE value \in bad : \A other \in bad : value <= other}]
    ELSE doms

\* domains[meeting_index] raises IndexError when the unary constraint is on a
\* meeting that has no domain.
node_consistency_raises(doms, constraint) ==
    arity(constraint) = 1 /\ constraint.L_VAL >= len(doms)

\* The body of node_consistency's loop for one constraint.
node_consistency_body(doms, constraint) ==
    IF arity(constraint) = 1
    THEN LET meeting_index == constraint.L_VAL
             domain == doms[meeting_index]
             new_domain == {value \in domain : is_satisfied_by_values(constraint, value, None)}
         IN  [doms EXCEPT ![meeting_index] = new_domain]
    ELSE doms

----------------------------------------------------------------------------
\* arc_consistency

Arc(constraint) ==
    [CONSTRAINT |-> constraint,
     TAIL |-> constraint.L_VAL,
     HEAD |-> IF arity(constraint) = 2 THEN constraint.R_VAL ELSE NoHead]

\* Mutant: only the arc of the constraint as written is added.
initialize_arcs_forward_only(cs) == {Arc(constraint) : constraint \in cs}

initialize_arcs(cs) ==
    UNION {IF arity(constraint) = 2
           THEN {Arc(constraint), Arc(get_reverse(constraint))}
           ELSE {Arc(constraint)} : constraint \in cs}

\* Mutant: the tail value and the head value are passed in the wrong order.
exists_satisfying_head_value_swapped(tail_val, curr_arc, doms) ==
    IF curr_arc.HEAD # NoHead
    THEN \E head_val \in doms[curr_arc.HEAD] :
            is_satisfied_by_values(curr_arc.CONSTRAINT, head_val, tail_val)
    ELSE is_satisfied_by_values(curr_arc.CONSTRAINT, tail_val, None)

\* Mutant: an arc without head accepts every value.
exists_satisfying_head_value_ignores_unary(tail_val, curr_arc, doms) ==
    IF curr_arc.HEAD # NoHead
    THEN \E head_val \in doms[curr_arc.HEAD] :
            is_satisfied_by_values(curr_arc.CONSTRAINT, tail_val, head_val)
    ELSE TRUE

exists_satisfying_head_value(tail_val, curr_arc, doms) ==
    IF curr_arc.HEAD # NoHead
    THEN \E head_val \in doms[curr_arc.HEAD] :
            is_satisfied_by_values(curr_arc.CONSTRAINT, tail_val, head_val)
    ELSE is_satisfied_by_values(curr_arc.CONSTRAINT, tail_val, None)

\* remove_inconsistent_values visiting the tail's values in the given order; a
\* removal is seen by the later checks when HEAD = TAIL.
RECURSIVE remove_inconsistent_values_loop(_, _, _)
remove_inconsistent_values_loop(doms, curr_arc, order) ==
    IF order = <<>> THEN doms
    ELSE LET tail_val == Head(order)
             after == IF ~exists_satisfying_head_value(tail_val, curr_arc, doms)
                      THEN set_remove(doms, curr_arc.TAIL, tail_val)
                      ELSE doms
         IN  remove_inconsistent_values_loop(after, curr_arc, Tail(order))

\* The domains remove_inconsistent_values can leave, one per iteration order
\* of the copy of the tail's domain; it returns True when it removed a value.
remove_inconsistent_values(doms, curr_arc) ==
    {remove_inconsistent_values_loop(doms, curr_arc, order) :
        order \in list_orders(doms[curr_arc.TAIL])}

\* remove_inconsistent_values raises IndexError at domains[curr_arc.TAIL] when
\* the tail has no domain, and inside exists_satisfying_head_value at
\* domains[curr_arc.HEAD] when the head has none; the head's domain is only
\* read for a value of the tail, the first one visited.
remove_inconsistent_values_raises(doms, curr_arc) ==
    \/ curr_arc.TAIL >= len(doms)
    \/ /\ curr_arc.HEAD # NoHead
       /\ curr_arc.HEAD >= len(doms)
       /\ doms[curr_arc.TAIL] # {}

\* Mutant: no arc is ever found to add back.
get_arcs_related_to_tail_none(curr_arc, cs) ==
    {Arc(constraint) : constraint \in {c \in cs : c.L_VAL = NoHead}}

get_arcs_related_to_tail(curr_arc, cs) ==
    {Arc(constraint) : constraint \in {c \in cs : c.L_VAL = curr_arc.HEAD}}

----------------------------------------------------------------------------
\* recursive_backtracker

\* Mutant: any() in place of all().
all_any(a) == \E i \in DOMAIN a : a[i] # None

all(a) == \A i \in DOMAIN a : a[i] # None

\* Mutant: the last unassigned variable is returned.
select_unassigned_variable_last(variables, a) ==
    LET unassigned_variables == {var \in variables : a[var] = None}
    IN  IF unassigned_variables = {} THEN NoHead
        ELSE CHOOSE var \in unassigned_variables :
                \A other \in unassigned_variables : var >= other

\* The first unassigned variable; NoHead stands for the ValueError raised when
\* there is none.
select_unassigned_variable(variables, a) ==
    LET unassigned_variables == {var \in variables : a[var] = None}
    IN  IF unassigned_variables = {} THEN NoHead
        ELSE CHOOSE var \in unassigned_variables :
                \A other \in unassigned_variables : var <= other

\* list(domain): the values in some order; the loop over it takes them one by
\* one, so the frame keeps the set of values not yet visited.
order_domain_values(domain) == domain

\* Mutant: the assignment is accepted without looking at the constraints.
is_assignment_consistent_unchecked(a, cs) == TRUE

\* Mutant: the loop returns True at the first satisfied constraint.
is_assignment_consistent_any(a, cs) ==
    cs = {} \/ \E constraint \in cs : is_satisfied_by_assignment(constraint, a)

is_assignment_consistent(a, cs) ==
    \A constraint \in cs : is_satisfied_by_assignment(constraint, a)

----------------------------------------------------------------------------
\* The state machine

\* The sets of constraints explored for n meetings: at most MaxConstraints
\* well-formed constraints over the meetings 0..n-1.
Instances(n) == SubsetsUpTo(ConstraintUniverse(n), MaxConstraints)

\* Larger instances: those of csp_tests.py for the filtering functions and for
\* solve (solve runs node_consistency, then arc_consistency, then the search),
\* and a chain of two orderings over three meetings.
Unary(l_val, op, day) == DateConstraint(l_val, op, day, 1)
Binary(l_val, op, r_val) == DateConstraint(l_val, op, r_val, 2)
Cycle2 == {Binary(0, "<", 1), Binary(1, "<", 0)}
Pigeonhole == {Binary(0, "!=", 1), Binary(0, "!=", 2), Binary(1, "!=", 2)}
Chain == {Binary(0, "<", 1), Binary(1, "<", 2)}
Cycle3 == {Binary(0, "<", 1), Binary(1, "<", 2), Binary(2, "<", 0)}
Pipeline == {Binary(0, "==", 1), Binary(1, "!=", 2), Binary(2, "<", 0)}
Combo5 == {Binary(0, "==", 1), Binary(1, "==", 2), Unary(2, "==", 1)}
Combo6 == {Binary(1, "!=", 0), Binary(1, "<", 2), Unary(2, "<=", 3), Unary(0, ">=", 3)}
TestInstances ==
    {<<3, generate_dates(5), {Unary(0, "!=", 3), Unary(1, "<", 2)}, "node_consistency">>,
     <<2, generate_dates(5), {Binary(0, "<", 1)}, "arc_consistency">>,
     <<2, generate_dates(5), Cycle2, "arc_consistency">>,
     <<2, generate_dates(5), Cycle2, "solve">>,
     <<1, generate_dates(5), {Unary(0, "==", 6)}, "solve">>,
     <<2, generate_dates(5), {Unary(0, "<=", 2), Unary(1, "<=", 2), Binary(0, "!=", 1)}, "solve">>,
     <<3, generate_dates(2), Pigeonhole, "solve">>,
     <<3, generate_dates(2), Pigeonhole, "recursive_backtracker">>,
     <<3, generate_dates(3), Pigeonhole, "solve">>,
     <<3, generate_dates(3), Chain, "arc_consistency">>,
     <<3, generate_dates(3), Chain, "solve">>,
     <<3, generate_dates(3), Chain, "recursive_backtracker">>,
     <<3, generate_dates(5), Cycle3, "arc_consistency">>,
     <<3, generate_dates(2), Pipeline, "arc_consistency">>,
     <<3, generate_dates(2), Pipeline, "solve">>,
     <<3, generate_dates(2), Combo5, "solve">>,
     <<3, generate_dates(2), Combo5, "arc_consistency">>,
     <<3, generate_dates(5), Combo6, "solve">>}

\* The first step of each call.
FirstPc(c) ==
    CASE c = "solve" -> "node"
      [] c = "node_consistency" -> "node"
      [] c = "arc_consistency" -> "arc_init"
      [] c = "recursive_backtracker" -> "bt_enter"
      [] c = "local_solve" -> "local"

\* The state in which the propagation and the search start: solve has built the
\* empty assignment and one copy of date_range per meeting (the tests build the
\* same domains before they call a part of solve directly).
InitOf(n, dates, cs, c) ==
    /\ args = NoArgs
    /\ container = set_copies(n)
    /\ n_meetings = n
    /\ date_range = dates
    /\ constraints = cs
    /\ call = c
    /\ pc = FirstPc(c)
    /\ domains = [i \in 0..(n - 1) |-> dates]
    /\ nc_todo = cs
    /\ nc_run = 1
    /\ arc_set = {}
    /\ assignment = [i \in 0..(n - 1) |-> None]
    /\ stack = <<>>
    /\ depth = n
    /\ outcome = "running"
    /\ result = NoValue

\* Every n_meetings, every range of consecutive days and every set of
\* constraints of Instances, under every call; and the larger instances.
Init ==
    \/ \E n \in 0..MaxMeetings, n_days \in 0..MaxDays, c \in Calls :
        \E cs \in Instances(n) : InitOf(n, generate_dates(n_days), cs, c)
    \/ \E inst \in TestInstances : InitOf(inst[1], inst[2], inst[3], inst[4])

\* node_consistency: one iteration of its loop over the constraints; an
\* IndexError ends the call and its caller.
NodeStep ==
    /\ pc = "node"
    /\ \E constraint \in nc_todo :
        IF node_consistency_raises(domains, constraint)
        THEN /\ pc' = "done"
             /\ outcome' = "IndexError"
             /\ UNCHANGED <<domains, container, nc_todo>>
        ELSE /\ domains' = node_consistency_body(domains, constraint)
             /\ container' = IF arity(constraint) = 1
                             THEN new_set(container, constraint.L_VAL)
                             ELSE container
             /\ nc_todo' = nc_todo \ {constraint}
             /\ UNCHANGED <<pc, outcome>>
    /\ UNCHANGED <<args, n_meetings, date_range, constraints, call, nc_run, arc_set,
                   assignment, stack, depth, result>>

\* node_consistency returns: solve goes on to arc_consistency; called directly
\* it is run a second time on the domains it left.
NodeReturn ==
    /\ pc = "node"
    /\ nc_todo = {}
    /\ IF call = "solve"
       THEN pc' = "arc_init" /\ UNCHANGED <<nc_todo, nc_run>>
       ELSE IF nc_run = 1
            THEN pc' = "node" /\ nc_todo' = constraints /\ nc_run' = 2
            ELSE pc' = "done" /\ UNCHANGED <<nc_todo, nc_run>>
    /\ UNCHANGED <<args, container, n_meetings, date_range, constraints, call, domains, arc_set,
                   assignment, stack, depth, outcome, result>>

\* arc_consistency: the worklist is initialised.
ArcInit ==
    /\ pc = "arc_init"
    /\ arc_set' = initialize_arcs(constraints)
    /\ pc' = "arc"
    /\ UNCHANGED <<args, container, n_meetings, date_range, constraints, call, domains, nc_todo,
                   nc_run, assignment, stack, depth, outcome, result>>

\* Mutant: the arcs are added back whether or not a value was removed.
ArcStep_always_adds ==
    /\ pc = "arc"
    /\ \E curr_arc \in arc_set :
        \E after \in remove_inconsistent_values(domains, curr_arc) :
            /\ domains' = after
            /\ date_range' = caller_set(after)
            /\ arc_set' = (arc_set \ {curr_arc})
                          \cup get_arcs_related_to_tail(curr_arc, constraints)
    /\ UNCHANGED <<args, container, n_meetings, constraints, call, pc, nc_todo, nc_run,
                   assignment, stack, depth, outcome, result>>

\* Mutant: an arc on a meeting that has no domain is taken off the worklist
\* and ignored.
ArcStep_ignores_missing ==
    /\ pc = "arc"
    /\ \E curr_arc \in arc_set :
        IF remove_inconsistent_values_raises(domains, curr_arc)
        THEN /\ arc_set' = arc_set \ {curr_arc}
             /\ UNCHANGED <<domains, date_range, pc, outcome>>
        ELSE \E after \in remove_inconsistent_values(domains, curr_arc) :
                /\ domains' = after
                /\ date_range' = caller_set(after)
                /\ arc_set' = IF after # domains
                              THEN (arc_set \ {curr_arc})
                                   \cup get_arcs_related_to_tail(curr_arc, constraints)
                              ELSE arc_set \ {curr_arc}
                /\ UNCHANGED <<pc, outcome>>
    /\ UNCHANGED <<args, container, n_meetings, constraints, call, nc_todo, nc_run,
                   assignment, stack, depth, result>>

\* arc_consistency: one iteration of the while loop; an IndexError ends the
\* call and its caller with the arc popped.
ArcStep ==
    /\ pc = "arc"
    /\ \E curr_arc \in arc_set :
        IF remove_inconsistent_values_raises(domains, curr_arc)
        THEN /\ arc_set' = arc_set \ {curr_arc}
             /\ pc' = "done"
             /\ outcome' = "IndexError"
             /\ UNCHANGED <<domains, date_range>>
        ELSE \E after \in remove_inconsistent_values(domains, curr_arc) :
                /\ domains' = after
                /\ date_range' = caller_set(after)
                /\ arc_set' = IF after # domains
                              THEN (arc_set \ {curr_arc})
                                   \cup get_arcs_related_to_tail(curr_arc, constraints)
                              ELSE arc_set \ {curr_arc}
                /\ UNCHANGED <<pc, outcome>>
    /\ UNCHANGED <<args, container, n_meetings, constraints, call, nc_todo, nc_run,
                   assignment, stack, depth, result>>

\* arc_consistency returns when the worklist is empty; solve goes on to the search.
ArcReturn ==
    /\ pc = "arc"
    /\ arc_set = {}
    /\ pc' = IF call = "solve" THEN "bt_enter" ELSE "done"
    /\ UNCHANGED <<args, container, n_meetings, date_range, constraints, call, domains, nc_todo,
                   nc_run, arc_set, assignment, stack, depth, outcome, result>>

\* Mutant: the caller goes on with its loop without unassigning its variable.
ReturnNone_keeps_value(callers) ==
    IF callers = <<>>
    THEN /\ pc' = "done"
         /\ outcome' = "none"
         /\ UNCHANGED assignment
    ELSE /\ pc' = "bt_loop"
         /\ outcome' = outcome
         /\ UNCHANGED assignment

\* A call of recursive_backtracker returns None to the frames in callers: the
\* caller unassigns its variable and goes on with its loop; with no caller the
\* search has returned None.
ReturnNone(callers) ==
    IF callers = <<>>
    THEN /\ pc' = "done"
         /\ outcome' = "none"
         /\ UNCHANGED assignment
    ELSE /\ pc' = "bt_loop"
         /\ outcome' = outcome
         /\ assignment' = [assignment EXCEPT ![callers[Len(callers)].next_var] = None]

\* recursive_backtracker is entered: base case, depth guard, variable selection.
BTEnter ==
    /\ pc = "bt_enter"
    /\ IF all(assignment)
       THEN \* every caller receives a non-empty list, which is truthy, and returns it
            /\ pc' = "done"
            /\ outcome' = "solution"
            /\ result' = assignment
            /\ stack' = <<>>
            /\ UNCHANGED <<assignment, depth>>
       ELSE IF depth <= 0
       THEN /\ ReturnNone(stack)
            /\ UNCHANGED <<stack, depth, result>>
       ELSE LET next_var == select_unassigned_variable(0..(n_meetings - 1), assignment)
            IN  IF next_var = NoHead
                THEN /\ pc' = "done"
                     /\ outcome' = "error"
                     /\ UNCHANGED <<assignment, stack, depth, result>>
                ELSE /\ stack' = Append(stack,
                                   [next_var |-> next_var,
                                    todo |-> order_domain_values(domains[next_var]),
                                    depth |-> depth,
                                    entry |-> assignment])
                     /\ pc' = "bt_loop"
                     /\ UNCHANGED <<assignment, depth, outcome, result>>
    /\ UNCHANGED <<args, container, n_meetings, date_range, constraints, call, domains, nc_todo,
                   nc_run, arc_set>>

\* Mutant: the recursive call is made with the same depth.
BTTry_keeps_depth ==
    /\ pc = "bt_loop"
    /\ LET top == stack[Len(stack)]
       IN  \E value \in top.todo :
            LET tried == [assignment EXCEPT ![top.next_var] = value]
                rest == [stack EXCEPT ![Len(stack)].todo = @ \ {value}]
            IN  /\ stack' = rest
                /\ IF is_assignment_consistent(tried, constraints)
                   THEN /\ assignment' = tried
                        /\ depth' = top.depth
                        /\ pc' = "bt_enter"
                   ELSE /\ assignment' = [tried EXCEPT ![top.next_var] = None]
                        /\ UNCHANGED <<depth, pc>>
    /\ UNCHANGED <<args, container, n_meetings, date_range, constraints, call, domains, nc_todo,
                   nc_run, arc_set, outcome, result>>

\* Mutant: the loop takes its values out of the domain itself.
BTTry_pops_domain ==
    /\ pc = "bt_loop"
    /\ LET top == stack[Len(stack)]
       IN  \E value \in top.todo :
            LET tried == [assignment EXCEPT ![top.next_var] = value]
                rest == [stack EXCEPT ![Len(stack)].todo = @ \ {value}]
            IN  /\ stack' = rest
                /\ domains' = [domains EXCEPT ![top.next_var] = @ \ {value}]
                /\ IF is_assignment_consistent(tried, constraints)
                   THEN /\ assignment' = tried
                        /\ depth' = top.depth - 1
                        /\ pc' = "bt_enter"
                   ELSE /\ assignment' = [tried EXCEPT ![top.next_var] = None]
                        /\ UNCHANGED <<depth, pc>>
    /\ UNCHANGED <<args, container, n_meetings, date_range, constraints, call, nc_todo,
                   nc_run, arc_set, outcome, result>>

\* One iteration of the loop over the domain values: assign, check, recurse or
\* unassign.
BTTry ==
    /\ pc = "bt_loop"
    /\ LET top == stack[Len(stack)]
       IN  \E value \in top.todo :
            LET tried == [assignment EXCEPT ![top.next_var] = value]
                rest == [stack EXCEPT ![Len(stack)].todo = @ \ {value}]
            IN  /\ stack' = rest
                /\ IF is_assignment_consistent(tried, constraints)
                   THEN /\ assignment' = tried
                        /\ depth' = top.depth - 1
                        /\ pc' = "bt_enter"
                   ELSE /\ assignment' = [tried EXCEPT ![top.next_var] = None]
                        /\ UNCHANGED <<depth, pc>>
    /\ UNCHANGED <<args, container, n_meetings, date_range, constraints, call, domains, nc_todo,
                   nc_run, arc_set, outcome, result>>

\* The loop over the domain values is exhausted: the call returns None.
BTExhausted ==
    /\ pc = "bt_loop"
    /\ stack[Len(stack)].todo = {}
    /\ stack' = SubSeq(stack, 1, Len(stack) - 1)
    /\ ReturnNone(stack')
    /\ UNCHANGED <<args, container, n_meetings, date_range, constraints, call, domains, nc_todo,
                   nc_run, arc_set, depth, result>>

Next ==
    \/ NodeStep
    \/ NodeReturn
    \/ ArcInit
    \/ ArcStep
    \/ ArcReturn
    \/ BTEnter
    \/ BTTry
    \/ BTExhausted

Spec == Init /\ [][Next]_vars

\* arc_consistency alone, called on freshly copied domains as the tests call
\* it. A running call always takes its next step.
ArcCall == Init /\ call = "arc_consistency"

ArcNext ==
    \/ ArcInit
    \/ ArcStep
    \/ ArcReturn

ArcSpec == ArcCall /\ [][ArcNext]_vars /\ WF_vars(ArcNext)

\* arc_consistency called directly has returned and is called a second time on
\* the domains it left.
ArcRerun ==
    /\ pc = "arc"
    /\ arc_set = {}
    /\ call = "arc_consistency"
    /\ nc_run = 1
    /\ pc' = "arc_init"
    /\ nc_run' = 2
    /\ UNCHANGED <<args, container, n_meetings, date_range, constraints, call, domains, nc_todo,
                   arc_set, assignment, stack, depth, outcome, result>>

ArcTwiceNext ==
    \/ ArcInit
    \/ ArcStep
    \/ ArcRerun
    \/ ArcReturn

\* arc_consistency called once or twice in a row on the same domains.
ArcTwiceSpec == ArcCall /\ [][ArcTwiceNext]_vars

\* The constraint c is on a meeting outside the n meetings of the problem.
references_outside(c, n) == c.L_VAL >= n \/ (arity(c) = 2 /\ c.R_VAL >= n)

\* The sets of at most MaxConstraints constraints for n meetings of which one
\* is on the meeting n, which the problem does not have.
IndexInstances(n) ==
    {s \cup {x} : s \in SubsetsUpTo(ConstraintUniverse(n), MaxConstraints - 1),
                  x \in ConstraintUniverse(n + 1) \ ConstraintUniverse(n)}

\* Larger instances with a constraint on a missing meeting: beside a cycle
\* that empties the domains, beside a unary constraint that empties the tail
\* of its arc, and beside a unary constraint on a meeting of the problem.
IndexTestInstances ==
    {<<2, generate_dates(5), Cycle2 \cup {Binary(1, "==", 2)}>>,
     <<2, generate_dates(2), {Unary(0, "<", 1), Binary(0, "<", 2)}>>,
     <<2, generate_dates(5), {Unary(0, "!=", 3), Unary(2, "==", 3)}>>}

\* solve called with a constraint on a meeting outside the problem.
IndexCall ==
    \/ \E n \in 0..MaxMeetings, n_days \in 0..MaxDays :
        \E cs \in IndexInstances(n) : InitOf(n, generate_dates(n_days), cs, "solve")
    \/ \E inst \in IndexTestInstances : InitOf(inst[1], inst[2], inst[3], "solve")

\* The propagation of solve; the search starts when ArcReturn is enabled.
IndexNext ==
    \/ NodeStep
    \/ NodeReturn
    \/ ArcInit
    \/ ArcStep

\* A running call always takes its next step.
IndexSpec == IndexCall /\ [][IndexNext]_vars /\ WF_vars(IndexNext)

----------------------------------------------------------------------------
\* Calls on a DateConstraint

\* The values passed to DateConstraint.__init__, with their Python type.
IntValue(v) == [type |-> "int", v |-> v]
DatetimeValue(day) == [type |-> "datetime", v |-> day]
StrValue == [type |-> "str", v |-> None]
NoneValue == [type |-> "NoneType", v |-> None]

isinstance(x, t) == x.type = t

\* DateConstraint.__init__: the exception it raises, or the constraint built.
\* The message of the first error is built from str(self), which reads
\* self.L_VAL before it is set: that raise ends in an AttributeError.
DateConstraint__init__(l_val, op, r_val) ==
    IF ~(op \in _VALID_OPS)
    THEN [raised |-> "AttributeError", value |-> NoValue]
    ELSE IF ~isinstance(l_val, "int") \/ l_val.v < 0
    THEN [raised |-> "ValueError", value |-> NoValue]
    ELSE IF isinstance(r_val, "int") /\ r_val.v < 0
    THEN [raised |-> "ValueError", value |-> NoValue]
    ELSE IF ~isinstance(r_val, "int") /\ ~isinstance(r_val, "datetime")
    THEN [raised |-> "ValueError", value |-> NoValue]
    ELSE [raised |-> "",
          value |-> DateConstraint(l_val.v, op, r_val.v,
                                   IF isinstance(r_val, "datetime") THEN 1 ELSE 2)]

ConstraintCalls ==
    {"DateConstraint", "is_satisfied_by_assignment", "is_satisfied_by_values",
     "get_reverse"}

\* The arguments explored: indices -1..MaxMeetings and values that are no
\* index, the valid operators and two invalid ones, days 1..MaxDays.
ConstructorArgs ==
    [l_val : {IntValue(i) : i \in (-1)..MaxMeetings} \cup {StrValue},
     op : _VALID_OPS \cup {"=", "<>"},
     r_val : {IntValue(i) : i \in (-1)..MaxMeetings}
             \cup {DatetimeValue(day) : day \in 1..MaxDays} \cup {StrValue, NoneValue}]

\* The constraints a method is called on: indices 0..MaxMeetings.
Receivers == ConstraintUniverse(MaxMeetings + 1)

\* The assignments passed: at most MaxMeetings slots, each None or a day.
Assignments ==
    UNION {[0..(k - 1) -> {None} \cup (1..MaxDays)] : k \in 0..MaxMeetings}

\* No solver call is in progress.
Idle ==
    /\ container = <<>>
    /\ n_meetings = 0
    /\ date_range = {}
    /\ constraints = {}
    /\ domains = <<>>
    /\ nc_todo = {}
    /\ nc_run = 1
    /\ arc_set = {}
    /\ assignment = <<>>
    /\ stack = <<>>
    /\ depth = 0

ConstraintInit ==
    /\ Idle
    /\ pc = "call"
    /\ outcome = "running"
    /\ result = NoValue
    /\ \/ call = "DateConstraint" /\ args \in ConstructorArgs
       \/ /\ call = "is_satisfied_by_assignment"
          /\ args \in [self : Receivers, assignment : Assignments]
       \/ /\ call = "is_satisfied_by_values"
          /\ args \in [self : Receivers, left_date : 1..MaxDays,
                        right_date : {None} \cup (1..MaxDays)]
       \/ call = "get_reverse" /\ args \in [self : Receivers]

\* DateConstraint(l_val, op, r_val)
Construct ==
    /\ pc = "call" /\ call = "DateConstraint"
    /\ LET built == DateConstraint__init__(args.l_val, args.op, args.r_val)
       IN  /\ outcome' = IF built.raised = "" THEN "returned" ELSE built.raised
           /\ result' = built.value
    /\ pc' = "done"
    /\ UNCHANGED <<args, container, n_meetings, date_range, constraints, call, domains,
                   nc_todo, nc_run, arc_set, assignment, stack, depth>>

\* self.is_satisfied_by_assignment(assignment)
IsSatisfiedByAssignment ==
    /\ pc = "call" /\ call = "is_satisfied_by_assignment"
    /\ outcome' = "returned"
    /\ result' = is_satisfied_by_assignment(args.self, args.assignment)
    /\ pc' = "done"
    /\ UNCHANGED <<args, container, n_meetings, date_range, constraints, call, domains,
                   nc_todo, nc_run, arc_set, assignment, stack, depth>>

\* self.is_satisfied_by_values(left_date, right_date), right_date None when
\* it is left out.
IsSatisfiedByValues ==
    /\ pc = "call" /\ call = "is_satisfied_by_values"
    /\ IF is_satisfied_by_values_raises(args.self, args.right_date)
       THEN outcome' = "ValueError" /\ result' = NoValue
       ELSE /\ outcome' = "returned"
            /\ result' = is_satisfied_by_values(args.self, args.left_date,
                                                args.right_date)
    /\ pc' = "done"
    /\ UNCHANGED <<args, container, n_meetings, date_range, constraints, call, domains,
                   nc_todo, nc_run, arc_set, assignment, stack, depth>>

\* self.get_reverse()
GetReverse ==
    /\ pc = "call" /\ call = "get_reverse"
    /\ IF get_reverse_raises(args.self)
       THEN outcome' = "ValueError" /\ result' = NoValue
       ELSE outcome' = "returned" /\ result' = get_reverse(args.self)
    /\ pc' = "done"
    /\ UNCHANGED <<args, container, n_meetings, date_range, constraints, call, domains,
                   nc_todo, nc_run, arc_set, assignment, stack, depth>>

ConstraintNext ==
    \/ Construct
    \/ IsSatisfiedByAssignment
    \/ IsSatisfiedByValues
    \/ GetReverse

ConstraintSpec == ConstraintInit /\ [][ConstraintNext]_vars

----------------------------------------------------------------------------
\* local_solve

\* local_solve: its body is "return []", whatever the arguments.
local_solve(n, dates, cs) == <<>>

\* local_solve is called on the instances solve is called on.
LocalCall ==
    \/ \E n \in 0..MaxMeetings, n_days \in 0..MaxDays :
        \E cs \in Instances(n) : InitOf(n, generate_dates(n_days), cs, "local_solve")
    \/ \E inst \in TestInstances : InitOf(inst[1], inst[2], inst[3], "local_solve")

\* local_solve returns a list.
LocalSolve ==
    /\ pc = "local"
    /\ result' = local_solve(n_meetings, date_range, constraints)
    /\ outcome' = "solution"
    /\ pc' = "done"
    /\ UNCHANGED <<args, container, n_meetings, date_range, constraints, call, domains,
                   nc_todo, nc_run, arc_set, assignment, stack, depth>>

LocalSpec == LocalCall /\ [][LocalSolve]_vars

----------------------------------------------------------------------------
\* Properties

\* What an operator means between two dates, stated apart from the code.
Holds(op, a, b) ==
    \/ op = "==" /\ a = b
    \/ op = "!=" /\ a # b
    \/ op = ">"  /\ a > b
    \/ op = "<"  /\ a < b
    \/ op = ">=" /\ a >= b
    \/ op = "<=" /\ a <= b

\* The complete assignments of candidate dates that satisfy every constraint.
Solutions ==
    {a \in [0..(n_meetings - 1) -> date_range] :
        \A c \in constraints :
            Holds(c.OP, a[c.L_VAL], IF c.ARITY = 1 THEN c.R_VAL ELSE a[c.R_VAL])}

\* arc_consistency has left its while loop.
ArcTerminated == pc = "arc" /\ arc_set = {}

\* node_consistency has left its loop over the constraints.
NodeTerminated == pc = "node" /\ nc_todo = {}

\* C1: when solve returns an assignment, it has exactly n_meetings slots, every
\* slot holds a date of date_range (none is None), and every constraint is
\* satisfied by it under is_satisfied_by_assignment.
C1_SolutionComplete ==
    (call = "solve" /\ outcome = "solution") =>
        /\ DOMAIN result = 0..(n_meetings - 1)
        /\ \A i \in DOMAIN result : result[i] # None /\ result[i] \in date_range
        /\ \A c \in constraints : is_satisfied_by_assignment(c, result)

\* C1 witness: solve has returned an assignment of three meetings that had to
\* satisfy three constraints.
C1_Witness ==
    /\ call = "solve" /\ pc = "done" /\ outcome = "solution"
    /\ n_meetings = 3 /\ constraints = Pigeonhole

\* C2: solve on an instance with n_meetings >= 1 that has a solution returns a
\* solution, whatever the iteration orders.
C2_Complete ==
    (call = "solve" /\ pc = "done" /\ n_meetings >= 1 /\ Solutions # {}) =>
        outcome = "solution"

\* C2 witness: solve has returned a solution after arc_consistency had pruned
\* the domain of a meeting.
C2_Witness ==
    /\ call = "solve" /\ pc = "done" /\ outcome = "solution" /\ n_meetings >= 1
    /\ constraints = Chain
    /\ domains[0] # date_range

\* C3: on an instance without solution solve never returns an assignment and
\* never raises; when it returns, it returns None.
C3_Unsatisfiable ==
    (/\ call = "solve"
     /\ \/ outcome \in {"solution", "error"}
        \/ pc = "done" /\ outcome # "none") => Solutions # {}

\* C3 witness: solve has returned None on the pigeonhole instance (three
\* meetings, two days, pairwise !=).
C3_Witness ==
    /\ call = "solve" /\ pc = "done" /\ outcome = "none"
    /\ constraints = Pigeonhole /\ date_range = generate_dates(2)

\* C4: when arc_consistency has terminated, every value left in the domain of
\* the left meeting of a binary constraint has a supporting value in the domain
\* of its right meeting.
C4_ArcSound ==
    ArcTerminated =>
        \A c \in constraints : c.ARITY = 2 =>
            \A v \in domains[c.L_VAL] : \E w \in domains[c.R_VAL] : Holds(c.OP, v, w)

\* C5: at every step of node_consistency and of arc_consistency, every
\* solution is contained in the product of the current domains: no value that
\* a solution uses is ever removed.
C5_NoFalsePruning ==
    pc \in {"node", "arc"} =>
        \A a \in Solutions : \A i \in DOMAIN a : a[i] \in domains[i]

\* C5 witness: arc_consistency has terminated with a pruned domain on an
\* instance that has a solution.
C5_Witness ==
    /\ ArcTerminated /\ Solutions # {}
    /\ \E c \in constraints : c.ARITY = 2 /\ c.L_VAL # c.R_VAL
    /\ \E i \in DOMAIN domains : domains[i] # date_range

\* C6: the search returns None exactly when the instance has no solution, both
\* on the domains filtered by node_consistency and arc_consistency (solve) and
\* on the unfiltered domains (recursive_backtracker called directly); so the
\* two runs agree on every instance.
C6_FilteringKeepsAnswer ==
    (pc = "done" /\ call \in {"solve", "recursive_backtracker"}) =>
        (outcome = "none" <=> Solutions = {})

\* C6 witness: the search has returned a solution on domains that the
\* filtering had reduced to one value each.
C6_Witness ==
    /\ pc = "done" /\ call = "solve" /\ outcome = "solution"
    /\ n_meetings >= 2
    /\ \A i \in DOMAIN domains : Cardinality(domains[i]) = 1

\* C7: after node_consistency, the domain of every meeting i holds exactly the
\* candidate dates that satisfy every unary constraint on i; binary
\* constraints and meetings without unary constraint change nothing.
C7_NodeConsistent ==
    NodeTerminated =>
        \A i \in DOMAIN domains :
            domains[i] = {v \in date_range :
                            \A c \in constraints :
                                (c.ARITY = 1 /\ c.L_VAL = i) => Holds(c.OP, v, c.R_VAL)}

\* C7 witness: test_csp_node_consistency_t2, where one domain loses one value,
\* one is reduced to one value and one is untouched.
C7_Witness ==
    /\ NodeTerminated /\ n_meetings = 3
    /\ domains[0] = {1, 2, 4, 5} /\ domains[1] = {1} /\ domains[2] = 1..5

\* C8: node_consistency is idempotent: no step of its second run changes a domain.
C8_NodeIdempotent ==
    [][(pc = "node" /\ nc_run = 2) => domains' = domains]_vars

\* C8 witness: the second run has ended on domains the first run had pruned.
C8_Witness ==
    /\ pc = "done" /\ call = "node_consistency" /\ nc_run = 2
    /\ \E i \in DOMAIN domains : domains[i] # date_range /\ domains[i] # {}

\* C9: arc_consistency terminates: a step that removes no value takes an arc
\* off the worklist and adds none, and the worklist becomes empty.
C9_ArcTerminates ==
    /\ [][(pc = "arc" /\ domains' = domains /\ arc_set' # arc_set) =>
            (arc_set' \subseteq arc_set)]_vars
    /\ (pc = "arc_init") ~> ArcTerminated

\* C9 witness: arc_consistency has terminated after re-adding arcs, on the
\* chain 0 < 1 < 2 with every domain reduced to one value.
C9_Witness ==
    /\ ArcTerminated /\ call = "arc_consistency" /\ constraints = Chain
    /\ domains[0] = {1} /\ domains[1] = {2} /\ domains[2] = {3}

\* C10: with two meetings, five days and the constraints 0 < 1 and 1 < 0, both
\* domains are empty when arc_consistency terminates, in every order.
C10_Cycle2Empty ==
    (ArcTerminated /\ n_meetings = 2 /\ date_range = generate_dates(5)
        /\ constraints = Cycle2) =>
        (domains[0] = {} /\ domains[1] = {})

\* C10 witness: arc_consistency, called on the full five-day domains, has
\* terminated on that instance.
C10_Witness ==
    /\ ArcTerminated /\ call = "arc_consistency" /\ n_meetings = 2
    /\ date_range = generate_dates(5) /\ constraints = Cycle2

\* C11: with '<' constraints that form a directed cycle over k >= 2 meetings
\* and every domain equal to the same candidate set, the domain of every
\* meeting on the cycle is empty when arc_consistency terminates, in every
\* order (k = 2: Cycle2; k = 3: Cycle3, test_csp_arc_consistency_t3).
C11_CycleEmpty ==
    (ArcTerminated /\ call = "arc_consistency" /\ constraints \in {Cycle2, Cycle3}) =>
        \A i \in DOMAIN domains : domains[i] = {}

\* C12: with three meetings, two days and the constraints 0 == 1, 1 != 2 and
\* 2 < 0, arc_consistency (called alone, or after node_consistency in solve)
\* terminates with domains[0] = {d2}, domains[1] = {d2} and domains[2] = {d1},
\* in every order.
C12_PipelinePruning ==
    (ArcTerminated /\ constraints = Pipeline /\ date_range = generate_dates(2)) =>
        (domains[0] = {2} /\ domains[1] = {2} /\ domains[2] = {1})

\* C13: with three meetings, two days and the constraints 0 == 1, 1 != 2 and
\* 2 < 0, solve returns the assignment [d2, d2, d1].
C13_PipelineResult ==
    (call = "solve" /\ pc = "done" /\ constraints = Pipeline
        /\ date_range = generate_dates(2)) =>
        (outcome = "solution" /\ result = (0 :> 2 @@ 1 :> 2 @@ 2 :> 1))

\* C13 witness: solve has returned [d2, d2, d1] although arc_consistency had
\* left both days in the domain of meeting 1, so the search had to reject d1.
C13_Witness ==
    /\ call = "solve" /\ pc = "done" /\ constraints = Pipeline
    /\ date_range = generate_dates(2)
    /\ result = (0 :> 2 @@ 1 :> 2 @@ 2 :> 1)
    /\ domains[1] = {1, 2}

\* C14: when arc_consistency terminates after node_consistency, the domains
\* are arc-consistent for every binary constraint and for its reverse: every
\* value left in the domain of either meeting has a supporting value in the
\* domain of the other. In particular with 0 == 1, 1 == 2 and 2 == d1 over two
\* days the three domains end as {d1} (test_csp_arc_consistency_t5).
C14_FullyArcConsistent ==
    (ArcTerminated /\ call = "solve") =>
        /\ \A c \in constraints : c.ARITY = 2 =>
                /\ \A v \in domains[c.L_VAL] :
                        \E w \in domains[c.R_VAL] : Holds(c.OP, v, w)
                /\ \A w \in domains[c.R_VAL] :
                        \E v \in domains[c.L_VAL] : Holds(c.OP, v, w)
        /\ (constraints = Combo5 /\ date_range = generate_dates(2)) =>
                \A i \in DOMAIN domains : domains[i] = {1}

\* C15: each meeting has its own copy of the candidate set: a step of
\* node_consistency or of arc_consistency changes the domain of at most one
\* meeting, and no step changes the caller's date_range.
C15_DomainIndependence ==
    [][/\ date_range' = date_range
       /\ Cardinality({i \in DOMAIN domains : domains'[i] # domains[i]}) <= 1]_vars

\* C15 witness: solve has returned after arc_consistency removed values in
\* place from the domain of one meeting, while another meeting still has the
\* whole candidate set.
C15_Witness ==
    /\ call = "solve" /\ pc = "done" /\ date_range # {}
    /\ \E c \in constraints : c.ARITY = 2
    /\ \A c \in constraints : c.ARITY = 2
    /\ \E i, j \in DOMAIN domains : domains[i] # date_range /\ domains[j] = date_range

\* C16: is_satisfied_by_assignment returns True whenever a meeting the
\* constraint refers to is unassigned (None) or has an index >= len(assignment),
\* for every operator and both arities; it returns False only when every
\* meeting it refers to is assigned and the operator does not hold between the
\* left date and the right date (the literal date of a unary constraint).
C16_UnassignedNonBlocking ==
    (call = "is_satisfied_by_assignment" /\ pc = "done") =>
        LET c == args.self
            a == args.assignment
            Unassigned(i) == IF i >= len(a) THEN TRUE ELSE a[i] = None
            refs == IF c.ARITY = 2 THEN {c.L_VAL, c.R_VAL} ELSE {c.L_VAL}
            right == IF c.ARITY = 2 THEN a[c.R_VAL] ELSE c.R_VAL
        IN  /\ outcome = "returned"
            /\ result \in BOOLEAN
            /\ (\E i \in refs : Unassigned(i)) => result = TRUE
            /\ (result = FALSE) <=>
                    /\ \A i \in refs : ~Unassigned(i)
                    /\ ~Holds(c.OP, a[c.L_VAL], right)

\* C16 witness: a binary "<" constraint whose left meeting is assigned and
\* whose right meeting lies beyond the end of the assignment was found
\* satisfied.
C16_Witness ==
    /\ call = "is_satisfied_by_assignment" /\ pc = "done"
    /\ args.self.ARITY = 2 /\ args.self.OP = "<"
    /\ args.self.L_VAL < len(args.assignment)
    /\ args.assignment[args.self.L_VAL] # None
    /\ args.self.R_VAL >= len(args.assignment)
    /\ result = TRUE

\* C17: get_reverse of a binary constraint c swaps L_VAL and R_VAL, maps > to
\* <, < to >, >= to <=, <= to >= and keeps == and !=; and for all dates a, b,
\* c.is_satisfied_by_values(a, b) = c.get_reverse().is_satisfied_by_values(b, a).
C17_ReverseSymmetry ==
    (call = "get_reverse" /\ pc = "done" /\ args.self.ARITY = 2) =>
        LET c == args.self
        IN  /\ outcome = "returned"
            /\ result.L_VAL = c.R_VAL /\ result.R_VAL = c.L_VAL /\ result.ARITY = 2
            /\ <<c.OP, result.OP>> \in {<<">", "<">>, <<"<", ">">>, <<">=", "<=">>,
                                         <<"<=", ">=">>, <<"==", "==">>, <<"!=", "!=">>}
            /\ \A a, b \in 1..(MaxDays + 1) :
                    is_satisfied_by_values(c, a, b) = is_satisfied_by_values(result, b, a)

\* C17 witness: get_reverse has returned the reverse of a ">=" constraint
\* between two different meetings.
C17_Witness ==
    /\ call = "get_reverse" /\ pc = "done" /\ outcome = "returned"
    /\ args.self.OP = ">=" /\ args.self.L_VAL # args.self.R_VAL
    /\ result.OP = "<="

\* C18: get_reverse on a unary constraint fails with an error and returns no
\* constraint; is_satisfied_by_values on a binary constraint with right_date
\* left out fails with an error; on a unary constraint the right_date left out
\* is the constraint's literal date.
C18_UsageErrors ==
    /\ (call = "get_reverse" /\ pc = "done" /\ args.self.ARITY = 1) =>
            (outcome = "ValueError" /\ result = NoValue)
    /\ (call = "is_satisfied_by_values" /\ pc = "done" /\ args.right_date = None) =>
            IF args.self.ARITY = 2
            THEN outcome = "ValueError" /\ result = NoValue
            ELSE /\ outcome = "returned"
                 /\ result = Holds(args.self.OP, args.left_date, args.self.R_VAL)

\* C18 witness: is_satisfied_by_values was called on a binary constraint
\* without right_date and has raised.
C18_Witness ==
    /\ call = "is_satisfied_by_values" /\ pc = "done"
    /\ args.self.ARITY = 2 /\ args.right_date = None
    /\ outcome = "ValueError"

\* The arguments of a construction error: an operator that is not valid, a
\* negative left index, a negative right index, a right value that is neither
\* an index nor a date.
InvalidOperator(a) == a.op \notin {"==", "!=", ">", "<", ">=", "<="}
NegativeLeft(a) == a.l_val.type = "int" /\ a.l_val.v < 0
NegativeRight(a) == a.r_val.type = "int" /\ a.r_val.v < 0
MalformedRight(a) == a.r_val.type \notin {"int", "datetime"}

\* C19: the construction of a constraint fails with the validation error, the
\* same in the four cases, and yields no constraint when the operator is not
\* valid, when left is negative, when right is a negative index, or when right
\* is neither an index nor a date.
C19_ConstructionErrors ==
    (/\ call = "DateConstraint" /\ pc = "done"
     /\ \/ InvalidOperator(args)
        \/ NegativeLeft(args)
        \/ NegativeRight(args)
        \/ MalformedRight(args)) =>
        (outcome = "ValueError" /\ result = NoValue)

\* The kinds of error with which a construction with a valid operator fails
\* on a negative index or on a malformed right value.
ConstructionErrorKinds ==
    {DateConstraint__init__(a.l_val, a.op, a.r_val).raised :
        a \in {x \in ConstructorArgs :
                  /\ ~InvalidOperator(x)
                  /\ NegativeLeft(x) \/ NegativeRight(x) \/ MalformedRight(x)}}

\* C20: the kind of error of a usage error (get_reverse on a unary constraint,
\* right_date left out on a binary constraint) is not a kind of error of a
\* construction error (negative index, malformed right value).
C20_UsageErrorsDistinguishable ==
    (/\ pc = "done" /\ call \in {"get_reverse", "is_satisfied_by_values"}
     /\ outcome # "returned") =>
        outcome \notin ConstructionErrorKinds

\* C21: local_solve returns None or a list of exactly n_meetings dates of
\* date_range, one per meeting, that satisfies every constraint; on an instance
\* without solution it returns None.
C21_LocalSolve ==
    (call = "local_solve" /\ pc = "done") =>
        /\ \/ outcome = "none"
           \/ /\ outcome = "solution"
              /\ DOMAIN result = 0..(n_meetings - 1)
              /\ \A i \in DOMAIN result : result[i] \in date_range
              /\ \A c \in constraints :
                    Holds(c.OP, result[c.L_VAL],
                          IF c.ARITY = 1 THEN c.R_VAL ELSE result[c.R_VAL])
        /\ (Solutions = {}) => outcome = "none"

\* C22: whenever a step of arc_consistency revises an arc and removes a value
\* from the domain of its tail, every arc of the initial arc set (forward or
\* reversed) whose tail is the head of the revised arc is in the worklist
\* after the step.
C22_Requeue ==
    [][(pc = "arc" /\ domains' # domains) =>
            \E curr_arc \in arc_set :
                /\ domains' \in remove_inconsistent_values(domains, curr_arc)
                /\ \A a \in initialize_arcs(constraints) :
                        a.TAIL = curr_arc.HEAD => a \in arc_set']_vars

\* The domains arc_consistency leaves when it takes the arcs, and the values
\* of a tail's domain, in one fixed order.
RECURSIVE arc_consistency_run(_, _)
arc_consistency_run(doms, arcs) ==
    IF arcs = {} THEN doms
    ELSE LET curr_arc == CHOOSE a \in arcs : TRUE
             after == CHOOSE d \in remove_inconsistent_values(doms, curr_arc) : TRUE
         IN  arc_consistency_run(
                 after,
                 IF after # doms
                 THEN (arcs \ {curr_arc}) \cup get_arcs_related_to_tail(curr_arc, constraints)
                 ELSE arcs \ {curr_arc})

\* C23: for fixed constraints and fixed initial domains, every order in which
\* the arcs are taken off the worklist leads arc_consistency to the same final
\* domains: those of the run in one fixed order.
C23_OrderIndependent ==
    (ArcTerminated /\ call = "arc_consistency") =>
        domains = arc_consistency_run([i \in 0..(n_meetings - 1) |-> date_range],
                                      initialize_arcs(constraints))

\* C24: in every step of node_consistency and of arc_consistency the domain of
\* each meeting after the step is a subset of its domain before the step, and
\* the revision of an arc changes no domain but that of the arc's tail.
C24_DomainsOnlyShrink ==
    [][(pc \in {"node", "arc"}) =>
            /\ \A i \in DOMAIN domains : domains'[i] \subseteq domains[i]
            /\ (pc = "arc") =>
                    \A curr_arc \in arc_set :
                        (domains' \in remove_inconsistent_values(domains, curr_arc)) =>
                            \A i \in DOMAIN domains \ {curr_arc.TAIL} :
                                domains'[i] = domains[i]]_vars

\* C24 witness: test_csp_arc_consistency_t6: node_consistency has reduced the
\* domains of meetings 0 and 2 and arc_consistency those of meetings 1 and 2.
C24_Witness ==
    /\ ArcTerminated /\ call = "solve" /\ constraints = Combo6
    /\ domains[0] = {3, 4, 5} /\ domains[1] = {1, 2} /\ domains[2] = {2, 3}

\* C25: arc_consistency called without node_consistency enforces the unary
\* constraints through the arcs without head: when it terminates, every value
\* left in domains[i] satisfies every unary constraint on i; and the revision
\* of an arc without head adds no arc to the worklist.
C25_HeadlessArcs ==
    /\ [](ArcTerminated =>
            \A c \in constraints : c.ARITY = 1 =>
                \A v \in domains[c.L_VAL] : Holds(c.OP, v, c.R_VAL))
    /\ [][(pc = "arc") =>
            \A curr_arc \in arc_set :
                (/\ curr_arc.HEAD = NoHead
                 /\ curr_arc \notin arc_set'
                 /\ domains' \in remove_inconsistent_values(domains, curr_arc)) =>
                    arc_set' = arc_set \ {curr_arc}]_vars

\* C25 witness: arc_consistency alone has terminated on 0 == 1, 1 == 2,
\* 2 == d1 with the unary constraint enforced on meeting 2.
C25_Witness ==
    /\ ArcTerminated /\ call = "arc_consistency" /\ constraints = Combo5
    /\ domains[2] = {1} /\ date_range = generate_dates(2)

\* The operator of the reversed constraint, as the description of the initial
\* arc set gives it.
Flipped(op) ==
    CASE op = ">"  -> "<"
      [] op = "<"  -> ">"
      [] op = ">=" -> "<="
      [] op = "<=" -> ">="
      [] op = "==" -> "=="
      [] op = "!=" -> "!="

\* C26: the worklist of arc_consistency starts as the set that holds, for
\* every binary constraint, the arc of the constraint (tail = left, head =
\* right) and the arc of its reverse (tail = right, head = left, operator
\* flipped) and, for every unary constraint, one arc with tail = left and no
\* head; being a set it holds no arc twice.
C26_InitialArcs ==
    [][(pc = "arc_init") =>
            arc_set' =
                {[CONSTRAINT |-> c, TAIL |-> c.L_VAL, HEAD |-> c.R_VAL] :
                    c \in {b \in constraints : b.ARITY = 2}}
                \cup
                {[CONSTRAINT |-> [L_VAL |-> c.R_VAL, OP |-> Flipped(c.OP),
                                  R_VAL |-> c.L_VAL, ARITY |-> 2],
                  TAIL |-> c.R_VAL, HEAD |-> c.L_VAL] :
                    c \in {b \in constraints : b.ARITY = 2}}
                \cup
                {[CONSTRAINT |-> c, TAIL |-> c.L_VAL, HEAD |-> NoHead] :
                    c \in {u \in constraints : u.ARITY = 1}}]_vars

\* C26 witness: the worklist has just been initialised for two binary
\* constraints and one unary constraint: five arcs.
C26_Witness ==
    /\ pc = "arc" /\ call = "arc_consistency" /\ constraints = Combo5
    /\ Cardinality(arc_set) = 5
    /\ \A i \in DOMAIN domains : domains[i] = date_range

\* The number of assigned slots.
Assigned == {i \in DOMAIN assignment : assignment[i] # None}

\* C27: in every call of recursive_backtracker made from solve, depth plus the
\* number of assigned slots is n_meetings, so the depth guard (depth <= 0
\* returns None) is never reached while a slot is unassigned.
C27_DepthGuardUnused ==
    (call = "solve") =>
        /\ (pc = "bt_enter") =>
                /\ depth + Cardinality(Assigned) = n_meetings
                /\ (depth <= 0) => Assigned = DOMAIN assignment
        /\ (pc = "bt_loop") =>
                stack[Len(stack)].depth + Cardinality(Assigned) = n_meetings

\* C27 witness: a call made from solve is entered with depth 0 and the three
\* slots assigned.
C27_Witness ==
    /\ call = "solve" /\ pc = "bt_enter" /\ depth = 0 /\ n_meetings = 3
    /\ Cardinality(Assigned) = 3

\* C28: in every state of a search started by solve the assigned slots are
\* the indices 0..k-1, the variable a call assigns is k, and
\* select_unassigned_variable never raises its "All variables are assigned"
\* error.
C28_FirstUnassigned ==
    (call = "solve") =>
        /\ outcome # "error"
        /\ (pc \in {"bt_enter", "bt_loop"}) =>
                Assigned = 0..(Cardinality(Assigned) - 1)
        /\ (pc = "bt_loop") =>
                /\ stack[Len(stack)].next_var = Cardinality(Assigned)
                /\ \A j \in 1..Len(stack) : stack[j].next_var = j - 1

\* C28 witness: the third nested call of a search started by solve is in its
\* loop, with slots 0 and 1 assigned.
C28_Witness ==
    /\ call = "solve" /\ pc = "bt_loop" /\ Len(stack) = 3
    /\ Assigned = {0, 1}

\* C29: whenever a call of recursive_backtracker is in its loop between two
\* values, and so when it returns None, the assignment is slot for slot the
\* assignment the call was entered with; when the search as a whole returns
\* None no slot is assigned.
C29_NoPartialState ==
    /\ (pc = "bt_loop") => assignment = stack[Len(stack)].entry
    /\ (pc = "done" /\ outcome = "none"
            /\ call \in {"solve", "recursive_backtracker"}) => Assigned = {}

\* C29 witness: on the pigeonhole instance the first call has tried both days,
\* each nested search has returned None, and the call is about to return None.
C29_Witness ==
    /\ call = "solve" /\ constraints = Pigeonhole /\ date_range = generate_dates(2)
    /\ pc = "bt_loop" /\ Len(stack) = 1 /\ stack[1].todo = {}

\* C30: from the first call of recursive_backtracker to its return no step
\* changes a domain: the domains stay those arc_consistency left.
C30_SearchKeepsDomains ==
    [][(pc \in {"bt_enter", "bt_loop"}) => domains' = domains]_vars

\* C30 witness: solve has returned None on the pigeonhole instance after a
\* search through domains that still hold both days.
C30_Witness ==
    /\ call = "solve" /\ pc = "done" /\ outcome = "none"
    /\ constraints = Pigeonhole
    /\ \A i \in DOMAIN domains : domains[i] = generate_dates(2)

\* The partial assignment a violates no constraint whose meetings it has all
\* assigned.
Consistent(a) ==
    \A c \in constraints :
        IF c.ARITY = 1
        THEN (c.L_VAL \in DOMAIN a /\ a[c.L_VAL] # None)
                => Holds(c.OP, a[c.L_VAL], c.R_VAL)
        ELSE (/\ c.L_VAL \in DOMAIN a /\ a[c.L_VAL] # None
              /\ c.R_VAL \in DOMAIN a /\ a[c.R_VAL] # None)
                => Holds(c.OP, a[c.L_VAL], a[c.R_VAL])

\* C31: the search recurses only from consistent states. At the entry of every
\* call of recursive_backtracker, the running one and those still on the stack,
\* the partial assignment violates no constraint; and an iteration of the loop
\* whose tentative value violates some constraint leaves the variable
\* unassigned and stays in the loop at the same depth, while a value that
\* violates none is kept and the search recurses.
C31_RecursesFromConsistent ==
    /\ [](/\ pc = "bt_enter" => Consistent(assignment)
          /\ pc \in {"bt_enter", "bt_loop"}
                => \A j \in 1..Len(stack) : Consistent(stack[j].entry))
    /\ [][(pc = "bt_loop" /\ Len(stack') = Len(stack) /\ stack' # stack)
            => LET top == stack[Len(stack)]
                   value == CHOOSE v \in top.todo : v \notin stack'[Len(stack)].todo
                   tried == [assignment EXCEPT ![top.next_var] = value]
               IN  IF Consistent(tried)
                   THEN pc' = "bt_enter" /\ assignment' = tried
                   ELSE /\ pc' = "bt_loop"
                        /\ assignment' = assignment
                        /\ depth' = depth]_vars

\* A call entered with two meetings assigned under three binary constraints,
\* after a value of the second meeting was rejected in the loop.
C31_Witness ==
    /\ call = "solve"
    /\ constraints = Pigeonhole
    /\ pc = "bt_enter"
    /\ Cardinality(Assigned) = 2
    /\ Cardinality(stack[2].todo) = Cardinality(domains[1]) - 2

\* C32: fail fast on an empty domain. Once the propagation of solve has left
\* some meeting with an empty domain, the search ends with None and no loop of
\* recursive_backtracker takes a value to assign: every frame still has all
\* the values of its meeting's domain to visit, and no meeting is assigned.
C32_FailFast ==
    (/\ call = "solve"
     /\ pc \in {"bt_enter", "bt_loop", "done"}
     /\ \E i \in DOMAIN domains : domains[i] = {})
        => /\ outcome \in {"running", "none"}
           /\ Assigned = {}
           /\ \A j \in 1..Len(stack) :
                stack[j].todo = order_domain_values(domains[stack[j].next_var])

\* C33: arc_consistency is idempotent. Whatever the order in which the first run
\* and the second run take their arcs, no step of a second run on the domains
\* left by a first run removes a value.
C33_ArcIdempotent ==
    [][(call = "arc_consistency" /\ pc = "arc" /\ nc_run = 2)
        => domains' = domains]_vars

\* C34: a constraint on a meeting outside the problem makes solve fail. When
\* the constraint set holds a unary or binary constraint on a meeting index
\* >= n_meetings, solve always ends, with an IndexError raised by a step of
\* node_consistency or of arc_consistency: arc_consistency never returns, the
\* search is never entered and nothing is returned; yet
\* is_satisfied_by_assignment holds of that constraint for every assignment of
\* the n_meetings meetings.
C34_IndexError ==
    /\ [](/\ \E c \in constraints : references_outside(c, n_meetings)
          /\ ~ArcTerminated
          /\ pc \in {"node", "arc_init", "arc", "done"}
          /\ pc = "done" => (outcome = "IndexError" /\ result = NoValue)
          /\ outcome \in {"running", "IndexError"})
    /\ [][outcome' = "IndexError" => pc \in {"node", "arc"}]_vars
    /\ <>(pc = "done" /\ outcome = "IndexError")
    /\ [](pc = "done"
            => \A c \in constraints :
                references_outside(c, n_meetings)
                    => \A a \in [0..(n_meetings - 1) -> generate_dates(MaxDays) \cup {None}] :
                        is_satisfied_by_assignment(c, a))

\* The IndexError was raised by arc_consistency on an arc whose head is
\* missing, after the arc of a binary constraint between two meetings of the
\* problem was revised.
C34_Witness ==
    /\ call = "solve"
    /\ pc = "done"
    /\ outcome = "IndexError"
    /\ \E c \in constraints : arity(c) = 2 /\ ~references_outside(c, n_meetings)
    /\ \E c \in constraints : arity(c) = 2 /\ references_outside(c, n_meetings)
    /\ \E i \in DOMAIN domains : domains[i] # date_range

====
